---- MODULE Spec2Model ----
(***************************************************************************)
(* Model of the cm3588-fan controller: the threshold table, the speed      *)
(* selector, the configuration check and the Checker::adjust_speed tick    *)
(* with its device handles, over a small sysfs-like filesystem.            *)
(***************************************************************************)
EXTENDS Integers, Sequences, FiniteSets, TLC

(* ------------------------------------------------------------------ *)
(* Bounds of the model                                                 *)
(* ------------------------------------------------------------------ *)

\* Largest value the device's max_state / cur_state file holds in the model.
MaxDevState == 2

\* Number of thermal zones in the thermal directory.
NumZones == 2

\* Numeric contents (milli-degrees) the temp file of the first thermal zone
\* can hold: below, inside and above the default threshold range.
SensorValues == {44000, 55000, 66000}

\* Numeric contents the temp files of the other zones can hold.
OtherSensorValues == {66000}

\* Largest max_state a device reports where the table builder and the
\* selector are explored as functions.
FnMaxDevState == 5

\* Readings (millidegrees) the selector is applied to as a function.
FnSensorValues == {-5000, 0, 25000, 44000, 52000, 55000, 66000, 71000}

(* ------------------------------------------------------------------ *)
(* Option<u32>                                                         *)
(* ------------------------------------------------------------------ *)

None == [some |-> FALSE, v |-> 0]

Some(x) == [some |-> TRUE, v |-> x]

UnwrapOr(o, d) == IF o.some THEN o.v ELSE d

(* ------------------------------------------------------------------ *)
(* Natural numbers of any size: the mantissas of f64 values do not fit *)
(* the model checker's integers.  A number is the sequence of its      *)
(* digits in base Base, lowest first, without leading zeros.           *)
(* ------------------------------------------------------------------ *)

\* 2^DigitBits; a digit times a u32-sized factor below 2^17 stays in range.
DigitBits == 13

Base == 2 ^ DigitBits

RECURSIVE BigNorm(_)
BigNorm(x) ==
    IF x = <<>> THEN <<>>
    ELSE IF x[Len(x)] = 0 THEN BigNorm(SubSeq(x, 1, Len(x) - 1))
    ELSE x

RECURSIVE BigFromNat(_)
BigFromNat(n) == IF n = 0 THEN <<>> ELSE <<n % Base>> \o BigFromNat(n \div Base)

RECURSIVE BigMulAcc(_, _, _, _, _)
BigMulAcc(x, i, c, carry, acc) ==
    IF i > Len(x) THEN acc \o BigFromNat(carry)
    ELSE BigMulAcc(x, i + 1, c, (x[i] * c + carry) \div Base,
                   Append(acc, (x[i] * c + carry) % Base))

\* x * c for 0 <= c < 2^17.
BigMulSmall(x, c) == BigNorm(BigMulAcc(x, 1, c, 0, <<>>))

RECURSIVE BigDivAcc(_, _, _, _, _)
BigDivAcc(x, i, c, r, q) ==
    IF i = 0 THEN [q |-> BigNorm(q), r |-> r]
    ELSE BigDivAcc(x, i - 1, c, (r * Base + x[i]) % c,
                   <<(r * Base + x[i]) \div c>> \o q)

\* Quotient and remainder of x by c, 0 < c < 2^17.
BigDivSmall(x, c) == BigDivAcc(x, Len(x), c, 0, <<>>)

BigDigit(x, i) == IF i <= Len(x) THEN x[i] ELSE 0

RECURSIVE BigAddAcc(_, _, _, _, _)
BigAddAcc(x, y, i, carry, acc) ==
    IF i > Len(x) /\ i > Len(y) THEN acc \o BigFromNat(carry)
    ELSE BigAddAcc(x, y, i + 1, (BigDigit(x, i) + BigDigit(y, i) + carry) \div Base,
                   Append(acc, (BigDigit(x, i) + BigDigit(y, i) + carry) % Base))

BigAdd(x, y) == BigNorm(BigAddAcc(x, y, 1, 0, <<>>))

RECURSIVE BigSubAcc(_, _, _, _, _)
BigSubAcc(x, y, i, borrow, acc) ==
    IF i > Len(x) THEN acc
    ELSE BigSubAcc(x, y, i + 1,
                   IF x[i] - BigDigit(y, i) - borrow < 0 THEN 1 ELSE 0,
                   Append(acc, (x[i] - BigDigit(y, i) - borrow + Base) % Base))

\* x - y for x >= y.
BigSub(x, y) == BigNorm(BigSubAcc(x, y, 1, 0, <<>>))

RECURSIVE BigLessFrom(_, _, _)
BigLessFrom(x, y, i) ==
    IF i = 0 THEN FALSE
    ELSE IF x[i] # y[i] THEN x[i] < y[i]
    ELSE BigLessFrom(x, y, i - 1)

\* x < y.
BigLess(x, y) ==
    IF Len(x) # Len(y) THEN Len(x) < Len(y) ELSE BigLessFrom(x, y, Len(x))

\* x * 2^b.
BigShl(x, b) ==
    IF x = <<>> THEN <<>>
    ELSE [i \in 1..(b \div DigitBits) |-> 0] \o BigMulSmall(x, 2 ^ (b % DigitBits))

\* Number of bits of a digit.
RECURSIVE BitLen(_)
BitLen(n) == IF n = 0 THEN 0 ELSE 1 + BitLen(n \div 2)

BigBitLen(x) == IF x = <<>> THEN 0 ELSE DigitBits * (Len(x) - 1) + BitLen(x[Len(x)])

BigOdd(x) == x # <<>> /\ x[1] % 2 = 1

\* x \div 2^b.
BigShr(x, b) ==
    BigDivSmall(SubSeq(x, (b \div DigitBits) + 1, Len(x)), 2 ^ (b % DigitBits)).q

\* Bit b of x is set (bit 0 is the lowest).
BigBit(x, b) ==
    (BigDigit(x, (b \div DigitBits) + 1) \div (2 ^ (b % DigitBits))) % 2 = 1

\* The b lowest bits of x are all zero.
BigLowZero(x, b) ==
    /\ \A i \in 1..(b \div DigitBits) : BigDigit(x, i) = 0
    /\ BigDigit(x, (b \div DigitBits) + 1) % (2 ^ (b % DigitBits)) = 0

\* Number of zero bits below the lowest set bit of x # 0.
BigTrailingZeros(x) ==
    LET i == CHOOSE i \in 1..Len(x) : x[i] # 0 /\ \A j \in 1..(i - 1) : x[j] = 0
        k == CHOOSE k \in 0..(DigitBits - 1) : BigBit(<<x[i]>>, k) /\ BigLowZero(<<x[i]>>, k)
    IN DigitBits * (i - 1) + k

(* ------------------------------------------------------------------ *)
(* f64 values.  A finite value is (-1)^neg * m * 2^e with m below      *)
(* 2^MantissaBits, kept with m odd (or zero) so that equal values are  *)
(* equal records; cls tells finite values from the infinities and NaN. *)
(* Every operation computes the exact result and rounds it to the      *)
(* nearest f64, ties to even, as IEEE 754 arithmetic does.  Exponent   *)
(* overflow, subnormals and the sign of zero are out of the values'    *)
(* range here.                                                         *)
(* ------------------------------------------------------------------ *)

\* Bits of an f64 significand.
MantissaBits == 53

Float(cls, neg, m, e) == [cls |-> cls, neg |-> neg, m |-> m, e |-> e]

NaN == Float("nan", FALSE, <<>>, 0)

Inf(neg) == Float("inf", neg, <<>>, 0)

Zero == Float("fin", FALSE, <<>>, 0)

IsNaN(x) == x.cls = "nan"

IsInf(x) == x.cls = "inf"

\* m * 2^e with the trailing zero bits of m moved into the exponent.
Normalized(neg, m, e, zeros) == Float("fin", neg, BigShr(m, zeros), e + zeros)

Canonical(neg, m, e) ==
    IF m = <<>> THEN Zero ELSE Normalized(neg, m, e, BigTrailingZeros(m))

\* m without its drop lowest bits, rounded to nearest, ties to the even
\* significand: up when the highest dropped bit is set and either a lower
\* dropped bit is set or the kept significand is odd.
RoundedShift(m, drop) ==
    IF BigBit(m, drop - 1) /\ (~BigLowZero(m, drop - 1) \/ BigBit(m, drop))
    THEN BigAdd(BigShr(m, drop), <<1>>)
    ELSE BigShr(m, drop)

\* The f64 nearest to (-1)^neg * m * 2^e, for m of bits bits.
RoundBits(neg, m, e, bits) ==
    IF bits <= MantissaBits THEN Canonical(neg, m, e)
    ELSE Canonical(neg, RoundedShift(m, bits - MantissaBits), e + (bits - MantissaBits))

\* The f64 nearest to (-1)^neg * m * 2^e.
Round(neg, m, e) == RoundBits(neg, m, e, BigBitLen(m))

\* n as f64, for an integer n (exact below 2^53).
FromInt(n) == Round(n < 0, BigFromNat(IF n < 0 THEN -n ELSE n), 0)

\* |a| < |b| for finite nonzero a, b; one-digit significands at close
\* exponents are compared as they are.
MagLess(a, b) ==
    IF Len(a.m) = 1 /\ Len(b.m) = 1 /\ a.e - b.e \in -17..17
    THEN IF a.e <= b.e THEN a.m[1] < b.m[1] * 2 ^ (b.e - a.e)
         ELSE a.m[1] * 2 ^ (a.e - b.e) < b.m[1]
    ELSE IF a.e <= b.e THEN BigLess(a.m, BigShl(b.m, b.e - a.e))
    ELSE BigLess(BigShl(a.m, a.e - b.e), b.m)

\* a < b for finite a, b.
FinLess(a, b) ==
    IF a.m = <<>> THEN (b.m # <<>> /\ ~b.neg)
    ELSE IF b.m = <<>> THEN a.neg
    ELSE IF a.neg # b.neg THEN a.neg
    ELSE IF a.neg THEN MagLess(b, a) ELSE MagLess(a, b)

\* a <= b on f64: false as soon as one side is NaN.
FLe(a, b) ==
    IF IsNaN(a) \/ IsNaN(b) THEN FALSE
    ELSE IF IsInf(a) THEN (a.neg \/ (IsInf(b) /\ ~b.neg))
    ELSE IF IsInf(b) THEN ~b.neg
    ELSE a = b \/ FinLess(a, b)

\* a == b on f64: equal values are equal records, and NaN equals nothing.
FEq(a, b) == ~IsNaN(a) /\ ~IsNaN(b) /\ a = b

FLt(a, b) == FLe(a, b) /\ ~FLe(b, a)

FNeg(a) == IF IsNaN(a) \/ a = Zero THEN a ELSE [a EXCEPT !.neg = ~a.neg]

\* Sum of finite a and b: the exact sum at the lower exponent, rounded.
FinAdd(a, b) ==
    LET e == IF a.e <= b.e THEN a.e ELSE b.e
        ma == BigShl(a.m, a.e - e)
        mb == BigShl(b.m, b.e - e)
    IN IF a.neg = b.neg THEN Round(a.neg, BigAdd(ma, mb), e)
       ELSE IF BigLess(ma, mb) THEN Round(b.neg, BigSub(mb, ma), e)
       ELSE Round(a.neg, BigSub(ma, mb), e)

\* a + b.
FAdd(a, b) ==
    IF IsNaN(a) \/ IsNaN(b) THEN NaN
    ELSE IF IsInf(a) THEN (IF IsInf(b) /\ a.neg # b.neg THEN NaN ELSE a)
    ELSE IF IsInf(b) THEN b
    ELSE FinAdd(a, b)

\* a - b.
FSub(a, b) == FAdd(a, FNeg(b))

\* Bits the dividend is shifted by before the integer division, so that the
\* quotient by a divisor below 2^17 has more than MantissaBits bits.
DivShift == 72

\* Quotient of finite nonzero a by k > 0: the integer quotient of the shifted
\* significand, one more bit telling whether a remainder was left, rounded.
FinDiv(a, qr) ==
    Round(a.neg, BigAdd(BigMulSmall(qr.q, 2), IF qr.r = 0 THEN <<>> ELSE <<1>>),
          a.e - DivShift - 1)

\* a / (k as f64) for an integer k >= 0: x/0.0 is +/-inf, 0.0/0.0 is NaN.
FDivInt(a, k) ==
    IF IsNaN(a) THEN NaN
    ELSE IF IsInf(a) THEN a
    ELSE IF k = 0 THEN (IF a = Zero THEN NaN ELSE Inf(a.neg))
    ELSE IF a = Zero THEN Zero
    ELSE FinDiv(a, BigDivSmall(BigShl(a.m, DivShift), k))

\* (i as f64) * s for an integer i >= 0: 0 * inf is NaN.
FMulInt(i, s) ==
    IF IsNaN(s) THEN NaN
    ELSE IF IsInf(s) THEN (IF i = 0 THEN NaN ELSE s)
    ELSE Round(s.neg, BigMulSmall(s.m, i), s.e)

\* (n as f64) / (d as f64) for integers n and d >= 0.
F(n, d) == FDivInt(FromInt(n), d)

(* ------------------------------------------------------------------ *)
(* File contents: what trim().parse() makes of them                    *)
(* ------------------------------------------------------------------ *)

\* A file whose content is the decimal number n.
Num(n) == [numeric |-> TRUE, v |-> n]

\* A file whose content is no number (or that cannot be read).
Bad == [numeric |-> FALSE, v |-> 0]

(* ------------------------------------------------------------------ *)
(* Configuration                                                       *)
(* ------------------------------------------------------------------ *)

LOWER_TEMP_THRESHOLD == 45

UPPER_TEMP_THRESHOLD == 65

MIN_STATE == 0

\* Config { threshold: Threshold { min, max }, state: State { min, max } }
Cfg(tmin, tmax, smin, smax) ==
    [threshold |-> [min |-> F(tmin, 1), max |-> F(tmax, 1)],
     state |-> [min |-> smin, max |-> smax]]

\* Config::new with no environment variable set.
DefaultConfig == Cfg(LOWER_TEMP_THRESHOLD, UPPER_TEMP_THRESHOLD, MIN_STATE, None)

\* The configurations Config::new can produce that the model explores:
\* the defaults, a configured ceiling, a raised floor, and thresholds in
\* the wrong order.
Configs ==
    { DefaultConfig,
      Cfg(LOWER_TEMP_THRESHOLD, UPPER_TEMP_THRESHOLD, MIN_STATE, Some(2)),
      Cfg(LOWER_TEMP_THRESHOLD, UPPER_TEMP_THRESHOLD, 1, None),
      Cfg(UPPER_TEMP_THRESHOLD, LOWER_TEMP_THRESHOLD, MIN_STATE, None) }

(* ------------------------------------------------------------------ *)
(* State                                                               *)
(* ------------------------------------------------------------------ *)

VARIABLES
    pc,               \* "start", "running" or "aborted" (the process panicked);
                      \* under FnSpec "fn_start", then the function applied:
                      \* "built", "table", "checked", "sensor", "sensor_read"
    abort_cause,      \* which panic ended the process, "none" while it runs
    overflow_checks,  \* the build panics on integer overflow (debug) or wraps (release)
    config,           \* Checker.config
    is_init,          \* Checker.is_init
    fan_device,       \* Checker.fan_device: Option<Fan>
    temp_device,      \* Checker.temp_device: Option<Temp>, the zone of its path
    fs_fan,           \* a cooling_device of type pwm-fan exists in the thermal directory
    fs_cur_state,     \* content of <fan>/cur_state
    fs_zones,         \* content of thermal_zone<i>/temp, in read_dir order
    tick              \* what the last adjust_speed call did

vars == <<pc, abort_cause, overflow_checks, config, is_init, fan_device,
          temp_device, fs_fan, fs_cur_state, fs_zones, tick>>

Zones == 1..NumZones

\* Contents of the max_state and cur_state files of a present device.
StateContents == {Num(n) : n \in 0..MaxDevState} \cup {Bad}

\* Contents of the temp file of thermal zone z.
ZoneContents(z) ==
    {Num(n) : n \in IF z = 1 THEN SensorValues ELSE OtherSensorValues} \cup {Bad}

\* The thermal directory: what each zone's temp file holds.
ZoneFiles == {f \in [Zones -> ZoneContents(1)] : \A z \in Zones : f[z] \in ZoneContents(z)}

\* Option<Fan>::None; the fields only keep the record shape.
NoFan == [present |-> FALSE, max_state |-> 0, temp_slots |-> <<>>, last_state |-> None]

(* ------------------------------------------------------------------ *)
(* Threshold table                                                     *)
(* ------------------------------------------------------------------ *)

\* Fan::calculate_slots does not return a table: with eff the effective max
\* state, eff - state.min overflows u32 when eff < state.min and num_slots - 1
\* overflows when eff = state.min.  A build with overflow checks panics on
\* either; a build without them wraps, which for eff < state.min asks the
\* allocator for close to 2^32 entries (the process dies), and for
\* eff = state.min only yields a step that no entry uses.
CalculateSlotsPanics(cfg, max_state) ==
    LET eff == UnwrapOr(cfg.state.max, max_state)
    IN IF eff < cfg.state.min THEN TRUE
       ELSE IF eff = cfg.state.min THEN overflow_checks
       ELSE FALSE

\* Faulty variant of CalculateSlots: the states are assigned from the top
\* down.  C18_Monotonic rejects it.
CalculateSlotsDescending(cfg, max_state) ==
    LET num_slots == UnwrapOr(cfg.state.max, max_state) - cfg.state.min
        step == FDivInt(FSub(cfg.threshold.max, cfg.threshold.min), num_slots - 1)
    IN IF num_slots = 0 THEN <<>>
       ELSE [i \in 1..num_slots |->
               [state |-> num_slots - (i - 1) + cfg.state.min,
                temp |-> FAdd(cfg.threshold.min, FMulInt(i - 1, step))]]

\* Faulty variant of CalculateSlots: the states start at state.min.
\* C23_ExampleTable rejects it.
CalculateSlotsFromFloor(cfg, max_state) ==
    LET num_slots == UnwrapOr(cfg.state.max, max_state) - cfg.state.min
        step == FDivInt(FSub(cfg.threshold.max, cfg.threshold.min), num_slots - 1)
    IN IF num_slots = 0 THEN <<>>
       ELSE [i \in 1..num_slots |->
               [state |-> (i - 1) + cfg.state.min,
                temp |-> FAdd(cfg.threshold.min, FMulInt(i - 1, step))]]

\* Faulty variant of CalculateSlots: the range is divided by the number of
\* slots, not by the number of intervals.  C20_TableShape rejects it.
CalculateSlotsStepByCount(cfg, max_state) ==
    LET num_slots == UnwrapOr(cfg.state.max, max_state) - cfg.state.min
        step == FDivInt(FSub(cfg.threshold.max, cfg.threshold.min), num_slots)
    IN IF num_slots = 0 THEN <<>>
       ELSE [i \in 1..num_slots |->
               [state |-> (i - 1) + 1 + cfg.state.min,
                temp |-> FAdd(cfg.threshold.min, FMulInt(i - 1, step))]]

\* Fan::calculate_slots when it returns: entry i (0-based) is
\* (i + 1 + state.min, threshold.min + i * step).
CalculateSlots(cfg, max_state) ==
    LET num_slots == UnwrapOr(cfg.state.max, max_state) - cfg.state.min
        step == FDivInt(FSub(cfg.threshold.max, cfg.threshold.min), num_slots - 1)
    IN IF num_slots = 0 THEN <<>>
       ELSE [i \in 1..num_slots |->
               [state |-> (i - 1) + 1 + cfg.state.min,
                temp |-> FAdd(cfg.threshold.min, FMulInt(i - 1, step))]]

\* Fan::get_temperature_slots: [panic, slots].
GetTemperatureSlots(cfg, dev_max_state) ==
    LET max_state == UnwrapOr(cfg.state.max, dev_max_state)
    IN IF max_state = 0 THEN [panic |-> FALSE, slots |-> <<>>]
       ELSE IF CalculateSlotsPanics(cfg, max_state)
            THEN [panic |-> TRUE, slots |-> <<>>]
            ELSE [panic |-> FALSE, slots |-> CalculateSlots(cfg, max_state)]

(* ------------------------------------------------------------------ *)
(* Speed selector                                                      *)
(* ------------------------------------------------------------------ *)

\* Faulty variant of ChooseSpeed: no arm for the temperatures up to
\* threshold.min, the table is scanned for them too.  C14_BelowRange rejects it.
ChooseSpeedNoFloorArm(t, fan, cfg) ==
    IF FLe(t, cfg.threshold.max)
    THEN LET hit == {i \in 1..Len(fan.temp_slots) : FLe(fan.temp_slots[i].temp, t)}
         IN IF hit = {} THEN cfg.state.min
            ELSE fan.temp_slots[CHOOSE i \in hit : \A j \in hit : j <= i].state
    ELSE UnwrapOr(cfg.state.max, fan.max_state)

\* Faulty variant of ChooseSpeed: in range the table is scanned from the
\* front and the first entry whose breakpoint is <= t is taken.
\* C24_ExampleSelections rejects it.
ChooseSpeedFirstMatch(t, fan, cfg) ==
    IF FLe(t, cfg.threshold.min) THEN cfg.state.min
    ELSE IF FLe(t, cfg.threshold.max)
         THEN LET hit == {i \in 1..Len(fan.temp_slots) : FLe(fan.temp_slots[i].temp, t)}
              IN IF hit = {} THEN cfg.state.min
                 ELSE fan.temp_slots[CHOOSE i \in hit : \A j \in hit : i <= j].state
         ELSE UnwrapOr(cfg.state.max, fan.max_state)

\* Faulty variant of ChooseSpeed: above threshold.max the state of the last
\* table entry is returned.  C15_AboveRange rejects it.
ChooseSpeedCeilingFromTable(t, fan, cfg) ==
    IF FLe(t, cfg.threshold.min) THEN cfg.state.min
    ELSE IF FLe(t, cfg.threshold.max)
         THEN LET hit == {i \in 1..Len(fan.temp_slots) : FLe(fan.temp_slots[i].temp, t)}
              IN IF hit = {} THEN cfg.state.min
                 ELSE fan.temp_slots[CHOOSE i \in hit : \A j \in hit : j <= i].state
         ELSE IF fan.temp_slots = <<>> THEN cfg.state.min
              ELSE fan.temp_slots[Len(fan.temp_slots)].state

\* The state selected for temperature t with the handle's table.
ChooseSpeed(t, fan, cfg) ==
    IF FLe(t, cfg.threshold.min) THEN cfg.state.min
    ELSE IF FLe(t, cfg.threshold.max)
         THEN LET hit == {i \in 1..Len(fan.temp_slots) : FLe(fan.temp_slots[i].temp, t)}
              IN IF hit = {} THEN cfg.state.min
                 ELSE fan.temp_slots[CHOOSE i \in hit : \A j \in hit : j <= i].state
         ELSE UnwrapOr(cfg.state.max, fan.max_state)

(* ------------------------------------------------------------------ *)
(* Configuration check                                                 *)
(* ------------------------------------------------------------------ *)

\* Faulty variant of CheckConfig: the state bounds are checked before the
\* thresholds.  C25_ThresholdOrder rejects it.
CheckConfigStateFirst(cfg, fan) ==
    IF cfg.state.max.some /\ cfg.state.min >= cfg.state.max.v THEN "state_order"
    ELSE IF cfg.state.max.some /\ fan.present /\ cfg.state.max.v > fan.max_state
         THEN "exceeds_device"
    ELSE IF FLe(cfg.threshold.max, cfg.threshold.min) THEN "threshold"
    ELSE "none"

\* Faulty variant of CheckConfig: state.min equal to state.max is accepted.
\* C26_StateOrder rejects it.
CheckConfigAllowsEqual(cfg, fan) ==
    IF FLe(cfg.threshold.max, cfg.threshold.min) THEN "threshold"
    ELSE IF cfg.state.max.some /\ cfg.state.min > cfg.state.max.v THEN "state_order"
    ELSE IF cfg.state.max.some /\ fan.present /\ cfg.state.max.v > fan.max_state
         THEN "exceeds_device"
    ELSE "none"

\* Faulty variant of CheckConfig: without a fan device the device bound is
\* taken to be 0 rather than skipped.  C27_DeviceBound rejects it.
CheckConfigBoundsAbsentFan(cfg, fan) ==
    IF FLe(cfg.threshold.max, cfg.threshold.min) THEN "threshold"
    ELSE IF cfg.state.max.some /\ cfg.state.min >= cfg.state.max.v THEN "state_order"
    ELSE IF cfg.state.max.some /\ cfg.state.max.v > fan.max_state
         THEN "exceeds_device"
    ELSE "none"

\* Config::check_config: the panic it raises, "none" when it returns.
CheckConfig(cfg, fan) ==
    IF FLe(cfg.threshold.max, cfg.threshold.min) THEN "threshold"
    ELSE IF cfg.state.max.some /\ cfg.state.min >= cfg.state.max.v THEN "state_order"
    ELSE IF cfg.state.max.some /\ fan.present /\ cfg.state.max.v > fan.max_state
         THEN "exceeds_device"
    ELSE "none"

(* ------------------------------------------------------------------ *)
(* Device discovery and construction                                   *)
(* ------------------------------------------------------------------ *)

\* Temp::get_temp_path: the first zone whose temp file parses, as Some(zone).
GetTempPath(zones) ==
    LET ok == {z \in Zones : zones[z].numeric}
    IN IF ok = {} THEN None
       ELSE Some(CHOOSE z \in ok : \A y \in ok : z <= y)

\* last_state of a handle that Fan::new_fan_device has just built.
FreshLastState == None

\* Faulty variant of NewFanDevice: the handle is built without computing its
\* table.  C7_Recovery rejects it.
NewFanDeviceNoTable(cfg, max_state_file, zones) ==
    IF ~max_state_file.numeric THEN [panic |-> "max_state", fan |-> NoFan]
    ELSE IF ~GetTempPath(zones).some THEN [panic |-> "temp_path", fan |-> NoFan]
    ELSE LET fan == [present |-> TRUE, max_state |-> max_state_file.v,
                     temp_slots |-> <<>>, last_state |-> FreshLastState]
         IN IF CheckConfig(cfg, fan) # "none"
            THEN [panic |-> CheckConfig(cfg, fan), fan |-> NoFan]
            ELSE [panic |-> "none", fan |-> fan]

\* Fan::new_fan_device: [panic, fan]; panic names the unwrap or check that
\* ended the process, "none" when the handle is built.
NewFanDevice(cfg, max_state_file, zones) ==
    IF ~max_state_file.numeric THEN [panic |-> "max_state", fan |-> NoFan]
    ELSE IF ~GetTempPath(zones).some THEN [panic |-> "temp_path", fan |-> NoFan]
    ELSE LET max_state == max_state_file.v
             slots == GetTemperatureSlots(cfg, max_state)
             fan == [present |-> TRUE, max_state |-> max_state,
                     temp_slots |-> slots.slots, last_state |-> FreshLastState]
         IN IF slots.panic THEN [panic |-> "arithmetic", fan |-> NoFan]
            ELSE IF CheckConfig(cfg, fan) # "none"
                 THEN [panic |-> CheckConfig(cfg, fan), fan |-> NoFan]
                 ELSE [panic |-> "none", fan |-> fan]

\* Fan::get_fan_device: whether the scan of the thermal directory finds a pwm-fan.
GetFanDevice == fs_fan

\* Fan::new at startup: [panic, fan].  max_state_file: what <fan>/max_state
\* holds when it is read.
FanNew(cfg, max_state_file) ==
    IF GetFanDevice THEN NewFanDevice(cfg, max_state_file, fs_zones)
    ELSE [panic |-> "none", fan |-> NoFan]

\* Temp::get_current_temp through a handle on zone z: the file content, and
\* its number divided by 1000 when it parses.
MilliPerDegree == 1000

\* content.parse::<f64>() / 1000.0 for every numeric content a temp file of
\* the model holds.
Celsius ==
    [n \in SensorValues \cup OtherSensorValues \cup FnSensorValues |-> F(n, MilliPerDegree)]

\* Faulty variant of GetCurrentTemp: a file that cannot be read or parsed
\* yields 0.0 degrees.  C30_SensorRead rejects it.
GetCurrentTempDefaultsToZero(z) ==
    [ok |-> TRUE,
     temp |-> IF fs_zones[z].numeric THEN Celsius[fs_zones[z].v] ELSE Zero]

GetCurrentTemp(z) ==
    [ok |-> fs_zones[z].numeric,
     temp |-> IF fs_zones[z].numeric THEN Celsius[fs_zones[z].v] ELSE NaN]

\* A path that names none of the thermal zones' temp files.
NotAZone == 0

\* A file's content used as a path: the text of a reading ("44000\n") names
\* no thermal zone's temp file.
ContentAsPath(content) == NotAZone

\* Fan::get_temp_path: the first zone whose temp file parses; the value
\* returned is the string that was read from the file.
FanGetTempPath(zones) ==
    LET ok == {z \in Zones : zones[z].numeric}
    IN IF ok = {} THEN None
       ELSE Some(ContentAsPath(zones[CHOOSE z \in ok : \A y \in ok : z <= y]))

\* fs::read_to_string on a sensor path: only the zones' temp files exist.
ReadToString(path) == IF path \in Zones THEN fs_zones[path] ELSE Bad

\* Fan::get_current_temp through the temp_path the fan handle holds.
FanGetCurrentTemp(path) ==
    LET file == ReadToString(path)
    IN [ok |-> file.numeric,
        temp |-> IF file.numeric THEN Celsius[file.v] ELSE NaN]

(* ------------------------------------------------------------------ *)
(* The tick: Checker::adjust_speed                                     *)
(* ------------------------------------------------------------------ *)

\* The tick started with a fan handle and nothing applied yet
\* (is_init = false, last_state = None), and its write succeeded.
FirstWrite(t) ==
    /\ t.outcome = "wrote"
    /\ ~t.attached
    /\ ~t.pre_init /\ t.pre_last = None

\* What a tick leaves behind: the controller fields, the cur_state file, the
\* panic if any, and the record of what the tick did (history for the
\* properties below: the state the tick started from, what it read, selected
\* and compared, and how the tick before it ended).
TickEnd(outcome, init, fan, temp_dev, cur, panic, attached, temp, desired, cached) ==
    [is_init |-> init, fan_device |-> fan, temp_device |-> temp_dev,
     cur_state |-> cur, panic |-> panic,
     tick |-> [outcome |-> outcome, max_state_file |-> Bad,
               attached |-> attached, temp |-> temp, desired |-> desired,
               cached |-> cached,
               pre_init |-> is_init, pre_last |-> fan_device.last_state,
               ever_wrote |-> (tick.ever_wrote \/ outcome = "wrote"),
               prev_failed |-> (tick.outcome = "write_failed"),
               repeat_first |-> (FirstWrite(tick) /\ FEq(temp, tick.temp))]]

\* Faulty variant of WriteStep: the first-time write is not forced, the write
\* happens only when cur_state differs.  C1_Idempotence rejects it.
WriteStepIgnoresInit(fan, temp_dev, current_speed, current_temp, desired, attached, write_ok) ==
    IF current_speed # desired
    THEN IF write_ok
         THEN TickEnd("wrote", TRUE, [fan EXCEPT !.last_state = Some(desired)],
                      temp_dev, Num(desired), "none", attached, current_temp,
                      Some(desired), fan.last_state)
         ELSE TickEnd("write_failed", TRUE, NoFan, temp_dev, fs_cur_state, "none",
                      attached, current_temp, Some(desired), fan.last_state)
    ELSE TickEnd("no_change", is_init, fan, temp_dev, fs_cur_state, "none",
                 attached, current_temp, Some(desired), fan.last_state)

\* Faulty variant of WriteStep: a successful write is not recorded in
\* last_state.  C3_WriteSuccess rejects it.
WriteStepNoCache(fan, temp_dev, current_speed, current_temp, desired, attached, write_ok) ==
    IF current_speed # desired \/ ~is_init
    THEN IF write_ok
         THEN TickEnd("wrote", TRUE, fan, temp_dev, Num(desired), "none", attached,
                      current_temp, Some(desired), fan.last_state)
         ELSE TickEnd("write_failed", TRUE, NoFan, temp_dev, fs_cur_state, "none",
                      attached, current_temp, Some(desired), fan.last_state)
    ELSE TickEnd("no_change", is_init, fan, temp_dev, fs_cur_state, "none",
                 attached, current_temp, Some(desired), fan.last_state)

\* Faulty variant of WriteStep: a failed write keeps the fan handle and its
\* last_state.  C4_WriteFailure rejects it.
WriteStepKeepsHandle(fan, temp_dev, current_speed, current_temp, desired, attached, write_ok) ==
    IF current_speed # desired \/ ~is_init
    THEN IF write_ok
         THEN TickEnd("wrote", TRUE, [fan EXCEPT !.last_state = Some(desired)],
                      temp_dev, Num(desired), "none", attached, current_temp,
                      Some(desired), fan.last_state)
         ELSE TickEnd("write_failed", TRUE, fan, temp_dev, fs_cur_state, "none",
                      attached, current_temp, Some(desired), fan.last_state)
    ELSE TickEnd("no_change", is_init, fan, temp_dev, fs_cur_state, "none",
                 attached, current_temp, Some(desired), fan.last_state)

\* Faulty variant of WriteStep: every tick that passes the guard writes.
\* C6_ForcedWrite rejects it.
WriteStepAlwaysWrites(fan, temp_dev, current_speed, current_temp, desired, attached, write_ok) ==
    IF write_ok
    THEN TickEnd("wrote", TRUE, [fan EXCEPT !.last_state = Some(desired)],
                 temp_dev, Num(desired), "none", attached, current_temp,
                 Some(desired), fan.last_state)
    ELSE TickEnd("write_failed", TRUE, NoFan, temp_dev, fs_cur_state, "none",
                 attached, current_temp, Some(desired), fan.last_state)

\* checker.rs 98-112: the write decision and the write, once the guard passed.
\* write_ok: the filesystem accepts the write.
\* Faulty variant of WriteStep: the write needs both a changed state and a
\* controller that has not written yet (&& for ||).
WriteStepNeedsBoth(fan, temp_dev, current_speed, current_temp, desired, attached, write_ok) ==
    IF current_speed # desired /\ ~is_init
    THEN IF write_ok
         THEN TickEnd("wrote", TRUE, [fan EXCEPT !.last_state = Some(desired)],
                      temp_dev, Num(desired), "none", attached, current_temp,
                      Some(desired), fan.last_state)
         ELSE TickEnd("write_failed", TRUE, NoFan, temp_dev, fs_cur_state, "none",
                      attached, current_temp, Some(desired), fan.last_state)
    ELSE TickEnd("no_change", is_init, fan, temp_dev, fs_cur_state, "none",
                 attached, current_temp, Some(desired), fan.last_state)

\* Faulty variant of WriteStep: last_state is assigned before the write, and a
\* failed write keeps the handle.
WriteStepCachesBeforeWrite(fan, temp_dev, current_speed, current_temp, desired, attached, write_ok) ==
    IF current_speed # desired \/ ~is_init
    THEN IF write_ok
         THEN TickEnd("wrote", TRUE, [fan EXCEPT !.last_state = Some(desired)],
                      temp_dev, Num(desired), "none", attached, current_temp,
                      Some(desired), fan.last_state)
         ELSE TickEnd("write_failed", TRUE, [fan EXCEPT !.last_state = Some(desired)],
                      temp_dev, fs_cur_state, "none", attached, current_temp,
                      Some(desired), fan.last_state)
    ELSE TickEnd("no_change", is_init, fan, temp_dev, fs_cur_state, "none",
                 attached, current_temp, Some(desired), fan.last_state)

WriteStep(fan, temp_dev, current_speed, current_temp, desired, attached, write_ok) ==
    IF current_speed # desired \/ ~is_init
    THEN IF write_ok
         THEN TickEnd("wrote", TRUE, [fan EXCEPT !.last_state = Some(desired)],
                      temp_dev, Num(desired), "none", attached, current_temp,
                      Some(desired), fan.last_state)
         ELSE TickEnd("write_failed", TRUE, NoFan, temp_dev, fs_cur_state, "none",
                      attached, current_temp, Some(desired), fan.last_state)
    ELSE TickEnd("no_change", is_init, fan, temp_dev, fs_cur_state, "none",
                 attached, current_temp, Some(desired), fan.last_state)

\* Faulty variant of SensorStep: the comparison with last_state is missing.
\* C2_HysteresisGuard rejects it.
SensorStepNoGuard(fan, current_speed, attached, write_ok) ==
    LET temp_dev == IF temp_device.some THEN temp_device ELSE GetTempPath(fs_zones)
    IN IF ~temp_dev.some
       THEN TickEnd("no_sensor", is_init, fan, temp_device, fs_cur_state, "none",
                    attached, NaN, None, None)
       ELSE LET read == GetCurrentTemp(temp_dev.v)
                desired == ChooseSpeed(read.temp, fan, config)
            IN IF ~read.ok
               THEN TickEnd("temp_failed", is_init, fan, None, fs_cur_state, "none",
                            attached, NaN, None, None)
               ELSE WriteStep(fan, temp_dev, current_speed, read.temp, desired,
                              attached, write_ok)

\* Faulty variant of SensorStep: a failed sensor discovery also drops the fan
\* handle.  C11_NoSensor rejects it.
SensorStepDropsFan(fan, current_speed, attached, write_ok) ==
    LET temp_dev == IF temp_device.some THEN temp_device ELSE GetTempPath(fs_zones)
    IN IF ~temp_dev.some
       THEN TickEnd("no_sensor", is_init, NoFan, temp_device, fs_cur_state, "none",
                    attached, NaN, None, None)
       ELSE LET read == GetCurrentTemp(temp_dev.v)
                desired == ChooseSpeed(read.temp, fan, config)
            IN IF ~read.ok
               THEN TickEnd("temp_failed", is_init, fan, None, fs_cur_state, "none",
                            attached, NaN, None, None)
               ELSE IF fan.last_state = Some(desired)
                    THEN TickEnd("unchanged", is_init, fan, temp_dev, fs_cur_state,
                                 "none", attached, read.temp, Some(desired),
                                 fan.last_state)
                    ELSE WriteStep(fan, temp_dev, current_speed, read.temp, desired,
                                   attached, write_ok)

\* Faulty variant of SensorStep: a failed temperature read keeps the sensor
\* handle.  C12_TempReadFailure rejects it.
SensorStepKeepsSensor(fan, current_speed, attached, write_ok) ==
    LET temp_dev == IF temp_device.some THEN temp_device ELSE GetTempPath(fs_zones)
    IN IF ~temp_dev.some
       THEN TickEnd("no_sensor", is_init, fan, temp_device, fs_cur_state, "none",
                    attached, NaN, None, None)
       ELSE LET read == GetCurrentTemp(temp_dev.v)
                desired == ChooseSpeed(read.temp, fan, config)
            IN IF ~read.ok
               THEN TickEnd("temp_failed", is_init, fan, temp_dev, fs_cur_state,
                            "none", attached, NaN, None, None)
               ELSE IF fan.last_state = Some(desired)
                    THEN TickEnd("unchanged", is_init, fan, temp_dev, fs_cur_state,
                                 "none", attached, read.temp, Some(desired),
                                 fan.last_state)
                    ELSE WriteStep(fan, temp_dev, current_speed, read.temp, desired,
                                   attached, write_ok)

\* checker.rs 69-96: sensor discovery, temperature read, selection and guard.
\* Faulty variant of SensorStep: the guard compares the selected state with
\* the value read from cur_state instead of the cached last_state.
SensorStepGuardsOnDevice(fan, current_speed, attached, write_ok) ==
    LET temp_dev == IF temp_device.some THEN temp_device ELSE GetTempPath(fs_zones)
    IN IF ~temp_dev.some
       THEN TickEnd("no_sensor", is_init, fan, temp_device, fs_cur_state, "none",
                    attached, NaN, None, None)
       ELSE LET read == GetCurrentTemp(temp_dev.v)
                desired == ChooseSpeed(read.temp, fan, config)
            IN IF ~read.ok
               THEN TickEnd("temp_failed", is_init, fan, None, fs_cur_state, "none",
                            attached, NaN, None, None)
               ELSE IF current_speed = desired /\ is_init
                    THEN TickEnd("unchanged", is_init, fan, temp_dev, fs_cur_state,
                                 "none", attached, read.temp, Some(desired),
                                 fan.last_state)
                    ELSE WriteStep(fan, temp_dev, current_speed, read.temp, desired,
                                   attached, write_ok)

SensorStep(fan, current_speed, attached, write_ok) ==
    LET temp_dev == IF temp_device.some THEN temp_device ELSE GetTempPath(fs_zones)
    IN IF ~temp_dev.some
       THEN TickEnd("no_sensor", is_init, fan, temp_device, fs_cur_state, "none",
                    attached, NaN, None, None)
       ELSE LET read == GetCurrentTemp(temp_dev.v)
                desired == ChooseSpeed(read.temp, fan, config)
            IN IF ~read.ok
               THEN TickEnd("temp_failed", is_init, fan, None, fs_cur_state, "none",
                            attached, NaN, None, None)
               ELSE IF fan.last_state = Some(desired)
                    THEN TickEnd("unchanged", is_init, fan, temp_dev, fs_cur_state,
                                 "none", attached, read.temp, Some(desired),
                                 fan.last_state)
                    ELSE WriteStep(fan, temp_dev, current_speed, read.temp, desired,
                                   attached, write_ok)

\* Faulty variant of CurStateStep: content of cur_state that does not parse
\* drops the fan handle like a read error.  C13_FanFailure rejects it.
CurStateStepDropsOnParse(fan, attached, write_ok) ==
    IF ~fs_fan
    THEN TickEnd("cur_unreadable", is_init, NoFan, temp_device, fs_cur_state, "none",
                 attached, NaN, None, None)
    ELSE IF ~fs_cur_state.numeric
         THEN TickEnd("cur_unparsable", is_init, NoFan, temp_device, fs_cur_state,
                      "none", attached, NaN, None, None)
         ELSE SensorStep(fan, fs_cur_state.v, attached, write_ok)

\* checker.rs 53-67: the read of cur_state through the handle.
\* Faulty variant of CurStateStep: losing the fan handle on a failed read of
\* cur_state also clears is_init.
CurStateStepResetsInit(fan, attached, write_ok) ==
    IF ~fs_fan
    THEN TickEnd("cur_unreadable", FALSE, NoFan, temp_device, fs_cur_state, "none",
                 attached, NaN, None, None)
    ELSE IF ~fs_cur_state.numeric
         THEN TickEnd("cur_unparsable", is_init, fan, temp_device, fs_cur_state,
                      "none", attached, NaN, None, None)
         ELSE SensorStep(fan, fs_cur_state.v, attached, write_ok)

CurStateStep(fan, attached, write_ok) ==
    IF ~fs_fan
    THEN TickEnd("cur_unreadable", is_init, NoFan, temp_device, fs_cur_state, "none",
                 attached, NaN, None, None)
    ELSE IF ~fs_cur_state.numeric
         THEN TickEnd("cur_unparsable", is_init, fan, temp_device, fs_cur_state,
                      "none", attached, NaN, None, None)
         ELSE SensorStep(fan, fs_cur_state.v, attached, write_ok)

\* Faulty variant of AdjustSpeedResult: the handle is rebuilt, and the
\* configuration validated, on every tick.  C9_ConfigAbort rejects it.
AdjustSpeedResultRevalidates(write_ok, max_state_file) ==
    IF ~GetFanDevice
    THEN TickEnd("no_fan", is_init, NoFan, temp_device, fs_cur_state,
                 "none", FALSE, NaN, None, None)
    ELSE LET built == NewFanDevice(config, max_state_file, fs_zones)
         IN IF built.panic # "none"
            THEN TickEnd("panic", is_init, fan_device, temp_device,
                         fs_cur_state, built.panic, FALSE, NaN, None, None)
            ELSE CurStateStep(built.fan, ~fan_device.present, write_ok)

\* Faulty variant of AdjustSpeedResult: a tick without a fan still discovers
\* the sensor.  C10_NoFanNoOp rejects it.
AdjustSpeedResultProbesSensor(write_ok, max_state_file) ==
    IF fan_device.present THEN CurStateStep(fan_device, FALSE, write_ok)
    ELSE IF ~GetFanDevice
         THEN TickEnd("no_fan", is_init, fan_device, GetTempPath(fs_zones),
                      fs_cur_state, "none", FALSE, NaN, None, None)
         ELSE LET built == NewFanDevice(config, max_state_file, fs_zones)
              IN IF built.panic # "none"
                 THEN TickEnd("panic", is_init, fan_device, temp_device,
                              fs_cur_state, built.panic, FALSE, NaN, None, None)
                 ELSE CurStateStep(built.fan, TRUE, write_ok)

\* checker.rs 42-113: the whole tick.  max_state_file: what <fan>/max_state
\* holds if the tick reads it.
\* Faulty variant of AdjustSpeedResult: a tick that holds a fan handle computes
\* the table again, from the value it read from cur_state.
AdjustSpeedResultRebuildsTable(write_ok, max_state_file) ==
    IF fan_device.present
    THEN CurStateStep([fan_device EXCEPT
                          !.max_state = IF fs_cur_state.numeric THEN fs_cur_state.v
                                        ELSE @,
                          !.temp_slots = IF fs_cur_state.numeric
                                         THEN GetTemperatureSlots(config,
                                                                  fs_cur_state.v).slots
                                         ELSE @],
                      FALSE, write_ok)
    ELSE IF ~GetFanDevice
         THEN TickEnd("no_fan", is_init, fan_device, temp_device, fs_cur_state,
                      "none", FALSE, NaN, None, None)
         ELSE LET built == NewFanDevice(config, max_state_file, fs_zones)
              IN IF built.panic # "none"
                 THEN TickEnd("panic", is_init, fan_device, temp_device,
                              fs_cur_state, built.panic, FALSE, NaN, None, None)
                 ELSE CurStateStep(built.fan, TRUE, write_ok)

AdjustSpeedResult(write_ok, max_state_file) ==
    IF fan_device.present THEN CurStateStep(fan_device, FALSE, write_ok)
    ELSE IF ~GetFanDevice
         THEN TickEnd("no_fan", is_init, fan_device, temp_device, fs_cur_state,
                      "none", FALSE, NaN, None, None)
         ELSE LET built == NewFanDevice(config, max_state_file, fs_zones)
              IN IF built.panic # "none"
                 THEN TickEnd("panic", is_init, fan_device, temp_device,
                              fs_cur_state, built.panic, FALSE, NaN, None, None)
                 ELSE CurStateStep(built.fan, TRUE, write_ok)

NoTick ==
    [outcome |-> "none", max_state_file |-> Bad, attached |-> FALSE, temp |-> NaN,
     desired |-> None, cached |-> None,
     pre_init |-> FALSE, pre_last |-> None,
     ever_wrote |-> FALSE, prev_failed |-> FALSE, repeat_first |-> FALSE]

(* ------------------------------------------------------------------ *)
(* Specification                                                       *)
(* ------------------------------------------------------------------ *)

\* The builds told apart for a configuration: overflow checks change what
\* the program does only where state.min > 0 (with state.min = 0 no u32
\* subtraction of calculate_slots can overflow, see GetTemperatureSlots).
Builds(cfg) == IF cfg.state.min > 0 THEN BOOLEAN ELSE {FALSE}

\* What the fan's files can hold: nothing readable while the device is absent.
FanFiles(present) == IF present THEN StateContents ELSE {Bad}

Init ==
    /\ pc = "start"
    /\ abort_cause = "none"
    /\ config \in Configs
    /\ overflow_checks \in Builds(config)
    /\ is_init = FALSE
    /\ fan_device = NoFan
    /\ temp_device = None
    /\ fs_fan \in BOOLEAN
    /\ fs_cur_state \in FanFiles(fs_fan)
    /\ fs_zones \in ZoneFiles
    /\ tick = NoTick

\* Checker::new: the sensor handle, then the fan handle (which may panic).
CheckerNew ==
    /\ pc = "start"
    /\ \E max_state_file \in StateContents :
       \E built \in {FanNew(config, max_state_file)} :
          /\ temp_device' = GetTempPath(fs_zones)
          /\ fan_device' = built.fan
          /\ pc' = IF built.panic = "none" THEN "running" ELSE "aborted"
          /\ abort_cause' = built.panic
          /\ tick' = [tick EXCEPT !.max_state_file =
                                     IF GetFanDevice THEN max_state_file ELSE Bad]
    /\ is_init' = FALSE
    /\ UNCHANGED <<overflow_checks, config, fs_fan, fs_cur_state, fs_zones>>

\* What the tick can read from <fan>/max_state: it reads the file only when it
\* has no fan handle and discovery finds a device.
MaxStateReads == IF ~fan_device.present /\ GetFanDevice THEN StateContents ELSE {Bad}

\* Checker::adjust_speed, one call of the main loop.
AdjustSpeed ==
    /\ pc = "running"
    /\ \E write_ok \in BOOLEAN, max_state_file \in MaxStateReads :
         \E r \in {AdjustSpeedResult(write_ok, max_state_file)} :
            /\ is_init' = r.is_init
            /\ fan_device' = r.fan_device
            /\ temp_device' = r.temp_device
            /\ fs_cur_state' = r.cur_state
            /\ tick' = [r.tick EXCEPT !.max_state_file = max_state_file]
            /\ pc' = IF r.panic = "none" THEN "running" ELSE "aborted"
            /\ abort_cause' = r.panic
    /\ UNCHANGED <<overflow_checks, config, fs_fan, fs_zones>>

\* The fan device disappears from the thermal directory, or a device appears
\* with its cur_state file.
EnvFan ==
    /\ pc = "running"
    /\ fs_fan' = ~fs_fan
    /\ fs_cur_state' \in FanFiles(~fs_fan)
    /\ UNCHANGED <<pc, abort_cause, overflow_checks, config, is_init, fan_device,
                   temp_device, fs_zones, tick>>

\* Something other than the controller writes cur_state.
EnvCurState ==
    /\ pc = "running"
    /\ fs_fan
    /\ \E c \in StateContents \ {fs_cur_state} : fs_cur_state' = c
    /\ UNCHANGED <<pc, abort_cause, overflow_checks, config, is_init, fan_device,
                   temp_device, fs_fan, fs_zones, tick>>

\* A thermal zone reports another temperature, or stops reporting one.
EnvZone ==
    /\ pc = "running"
    /\ \E z \in Zones : \E c \in ZoneContents(z) \ {fs_zones[z]} :
         fs_zones' = [fs_zones EXCEPT ![z] = c]
    /\ UNCHANGED <<pc, abort_cause, overflow_checks, config, is_init, fan_device,
                   temp_device, fs_fan, fs_cur_state, tick>>

Next ==
    \/ CheckerNew
    \/ AdjustSpeed
    \/ EnvFan
    \/ EnvCurState
    \/ EnvZone

Spec == Init /\ [][Next]_vars

\* The fan device leaves the thermal directory or comes back; its cur_state
\* file holds what it held.
EnvFanSameDevice ==
    /\ pc = "running"
    /\ fs_fan' = ~fs_fan
    /\ UNCHANGED <<pc, abort_cause, overflow_checks, config, is_init, fan_device,
                   temp_device, fs_cur_state, fs_zones, tick>>

\* The controller in an environment where only the controller's fs::write
\* changes the content of cur_state.
OwnWritesNext ==
    \/ CheckerNew
    \/ AdjustSpeed
    \/ EnvFanSameDevice
    \/ EnvZone

OwnWritesSpec == Init /\ [][OwnWritesNext]_vars

\* main calls Checker::new once and then adjust_speed in a loop that never
\* ends: a call that is due is eventually made.
LiveSpec == Spec /\ WF_vars(CheckerNew) /\ WF_vars(AdjustSpeed)

(* ------------------------------------------------------------------ *)
(* The table builder and the selector as functions                     *)
(* ------------------------------------------------------------------ *)

\* A configuration whose thresholds are given in tenths of a degree, as
\* Config::new parses MIN_THRESHOLD=30.2.
TenthsCfg(tmin, tmax, smin, smax) ==
    [threshold |-> [min |-> F(tmin, 10), max |-> F(tmax, 10)],
     state |-> [min |-> smin, max |-> smax]]

\* The configuration of the controller tests: thresholds 45.0 and 70.0,
\* states 0 to 5.
ExampleConfig == Cfg(45, 70, MIN_STATE, Some(5))

\* Configurations check_config is to reject or to accept depending on the
\* device: thresholds equal or reversed together with state bounds in the
\* wrong order or beyond the device, and state bounds equal, reversed, in order.
CheckedConfigs ==
    { Cfg(LOWER_TEMP_THRESHOLD, LOWER_TEMP_THRESHOLD, 2, Some(1)),
      Cfg(UPPER_TEMP_THRESHOLD, LOWER_TEMP_THRESHOLD, MIN_STATE, Some(5)),
      Cfg(LOWER_TEMP_THRESHOLD, UPPER_TEMP_THRESHOLD, 2, Some(2)),
      Cfg(LOWER_TEMP_THRESHOLD, UPPER_TEMP_THRESHOLD, 2, Some(1)),
      Cfg(LOWER_TEMP_THRESHOLD, UPPER_TEMP_THRESHOLD, 1, Some(3)) }

\* The configurations the functions are applied to.
FnConfigs ==
    Configs \cup {TenthsCfg(302, 624, MIN_STATE, None), ExampleConfig} \cup CheckedConfigs

\* Breakpoints and states of tables that calculate_slots did not build:
\* below, inside and above every threshold range of FnConfigs, and NaN.
SlotTemps == {F(25, 1), F(50, 1), F(70, 1), NaN}

SlotStates == {0, 3}

Slots == [state : SlotStates, temp : SlotTemps]

\* Values of Fan.temp_slots: any order, repeated breakpoints, none.
AnyTables == {<<>>} \cup {<<a>> : a \in Slots} \cup {<<a, b>> : a \in Slots, b \in Slots}

\* content.parse::<f64>() / 1000.0 for the readings the selector is applied to.
FnCelsius == [n \in FnSensorValues |-> F(n, MilliPerDegree)]

\* The temperatures the selector is applied to: the readings, both
\* thresholds and every breakpoint of the table.
FnTemps(cfg, fan) ==
    {FnCelsius[n] : n \in FnSensorValues}
    \cup {cfg.threshold.min, cfg.threshold.max}
    \cup {fan.temp_slots[i].temp : i \in {j \in 1..Len(fan.temp_slots) : ~IsNaN(fan.temp_slots[j].temp)}}

\* The above-range state: state.max if configured, else the device max_state.
Ceiling(cfg, fan) == UnwrapOr(cfg.state.max, fan.max_state)

FnInit ==
    /\ pc = "fn_start"
    /\ abort_cause = "none"
    /\ config \in FnConfigs
    /\ overflow_checks \in Builds(config)
    /\ is_init = FALSE
    /\ fan_device = NoFan
    /\ temp_device = None
    /\ fs_fan = TRUE
    /\ fs_cur_state = Bad
    /\ fs_zones = [z \in Zones |-> Num(CHOOSE n \in OtherSensorValues : TRUE)]
    /\ tick = NoTick

\* Fan::new_fan_device for a device reporting max_state: the handle holds the
\* table get_temperature_slots builds, or the process panics.
FnNewFanDevice ==
    /\ pc = "fn_start"
    /\ \E max_state \in 0..FnMaxDevState :
       \E built \in {NewFanDevice(config, Num(max_state), fs_zones)} :
          /\ fan_device' = built.fan
          /\ pc' = IF built.panic = "none" THEN "built" ELSE "aborted"
          /\ abort_cause' = built.panic
          /\ tick' = [tick EXCEPT !.max_state_file = Num(max_state)]
    /\ UNCHANGED <<overflow_checks, config, is_init, temp_device, fs_fan,
                   fs_cur_state, fs_zones>>

\* A handle whose table is any value of its type, for a configuration that
\* check_config accepts with it.
FnAnyTable ==
    /\ pc = "fn_start"
    /\ \E max_state \in 0..FnMaxDevState, slots \in AnyTables :
       \E fan \in {[present |-> TRUE, max_state |-> max_state,
                    temp_slots |-> slots, last_state |-> FreshLastState]} :
          /\ CheckConfig(config, fan) = "none"
          /\ fan_device' = fan
    /\ pc' = "table"
    /\ UNCHANGED <<abort_cause, overflow_checks, config, is_init, temp_device,
                   fs_fan, fs_cur_state, fs_zones, tick>>

\* Config::check_config applied to the configuration and an optional fan:
\* None, or a handle of a device reporting max_state.
FnCheckConfig ==
    /\ pc = "fn_start"
    /\ \E fan \in {NoFan} \cup {[present |-> TRUE, max_state |-> m, temp_slots |-> <<>>,
                                 last_state |-> FreshLastState] : m \in 0..FnMaxDevState} :
       \E panic \in {CheckConfig(config, fan)} :
          /\ fan_device' = fan
          /\ pc' = IF panic = "none" THEN "checked" ELSE "aborted"
          /\ abort_cause' = panic
    /\ tick' = [tick EXCEPT !.outcome = "check_config"]
    /\ UNCHANGED <<overflow_checks, config, is_init, temp_device, fs_fan,
                   fs_cur_state, fs_zones>>

\* The temp file of the first zone holds any reading or nothing that parses
\* (missing, empty, not a number), and a sensor handle points to it.
FnEnvZone ==
    /\ pc = "fn_start"
    /\ \E c \in {Num(n) : n \in FnSensorValues} \cup {Bad} :
         fs_zones' = [fs_zones EXCEPT ![1] = c]
    /\ temp_device' = Some(1)
    /\ pc' = "sensor"
    /\ UNCHANGED <<abort_cause, overflow_checks, config, is_init, fan_device,
                   fs_fan, fs_cur_state, tick>>

\* Temp::get_current_temp through the sensor handle.
FnGetCurrentTemp ==
    /\ pc = "sensor"
    /\ \E r \in {GetCurrentTemp(temp_device.v)} :
         tick' = [tick EXCEPT !.outcome = IF r.ok THEN "temp_read" ELSE "temp_error",
                              !.temp = r.temp]
    /\ pc' = "sensor_read"
    /\ UNCHANGED <<abort_cause, overflow_checks, config, is_init, fan_device,
                   temp_device, fs_fan, fs_cur_state, fs_zones>>

\* The temp files of the thermal zones hold readings or nothing that parses.
FnZones ==
    /\ pc = "fn_start"
    /\ fs_zones' \in [Zones -> {Num(n) : n \in FnSensorValues} \cup {Bad}]
    /\ \A z \in Zones \ {1} :
         fs_zones'[z] \in {Num(n) : n \in OtherSensorValues} \cup {Bad}
    /\ pc' = "zones"
    /\ UNCHANGED <<abort_cause, overflow_checks, config, is_init, fan_device,
                   temp_device, fs_fan, fs_cur_state, tick>>

\* Temp::new: the sensor handle holds what Temp::get_temp_path returned.
FnTempNew ==
    /\ pc = "zones"
    /\ temp_device' = GetTempPath(fs_zones)
    /\ tick' = [tick EXCEPT !.outcome = "temp_new"]
    /\ pc' = "temp_new"
    /\ UNCHANGED <<abort_cause, overflow_checks, config, is_init, fan_device,
                   fs_fan, fs_cur_state, fs_zones>>

\* The temp_path field Fan::new_fan_device takes from Fan::get_temp_path.
FnFanGetTempPath ==
    /\ pc = "zones"
    /\ temp_device' = FanGetTempPath(fs_zones)
    /\ tick' = [tick EXCEPT !.outcome = "fan_temp_path"]
    /\ pc' = "fan_temp_path"
    /\ UNCHANGED <<abort_cause, overflow_checks, config, is_init, fan_device,
                   fs_fan, fs_cur_state, fs_zones>>

\* A temperature read through the handle that discovery produced:
\* Temp::get_current_temp after Temp::new, Fan::get_current_temp after
\* Fan::get_temp_path.
FnReadDiscovered ==
    /\ pc \in {"temp_new", "fan_temp_path"}
    /\ temp_device.some
    /\ \E r \in {IF pc = "temp_new" THEN GetCurrentTemp(temp_device.v)
                  ELSE FanGetCurrentTemp(temp_device.v)} :
         tick' = [tick EXCEPT !.outcome = IF r.ok THEN "temp_read" ELSE "temp_error",
                              !.temp = r.temp]
    /\ pc' = IF pc = "temp_new" THEN "temp_new_read" ELSE "fan_temp_path_read"
    /\ UNCHANGED <<abort_cause, overflow_checks, config, is_init, fan_device,
                   temp_device, fs_fan, fs_cur_state, fs_zones>>

\* The selector applied to a temperature with the handle's table.
FnChooseSpeed ==
    /\ pc \in {"built", "table"}
    /\ \E t \in FnTemps(config, fan_device) :
         tick' = [tick EXCEPT !.outcome = "selected", !.temp = t,
                                !.desired = Some(ChooseSpeed(t, fan_device, config))]
    /\ UNCHANGED <<pc, abort_cause, overflow_checks, config, is_init, fan_device,
                   temp_device, fs_fan, fs_cur_state, fs_zones>>

FnNext ==
    \/ FnNewFanDevice
    \/ FnAnyTable
    \/ FnCheckConfig
    \/ FnEnvZone
    \/ FnGetCurrentTemp
    \/ FnZones
    \/ FnTempNew
    \/ FnFanGetTempPath
    \/ FnReadDiscovered
    \/ FnChooseSpeed

FnSpec == FnInit /\ [][FnNext]_vars

(* ------------------------------------------------------------------ *)
(* Properties                                                          *)
(* ------------------------------------------------------------------ *)

\* A step of Checker::adjust_speed that changes anything: once the process
\* runs, nothing else changes the controller's fields or the tick record, and
\* in such a step the unprimed variables are the state the tick started from.
TickStep ==
    /\ pc = "running"
    /\ <<tick, is_init, fan_device, temp_device, pc>>'
         # <<tick, is_init, fan_device, temp_device, pc>>

\* The tick met no failure: every read parsed and the write, if one was
\* attempted, succeeded.
NoFailure(t) == t.outcome \in {"wrote", "unchanged", "no_change"}

\* The tick called fs::write on cur_state.
WriteAttempted(t) == t.outcome \in {"wrote", "write_failed"}

\* Number of writes the tick performed on cur_state.
Writes(t) == IF t.outcome = "wrote" THEN 1 ELSE 0

\* C1: from a controller with a fan handle and nothing applied yet
\* (is_init = false, last_state = None), two consecutive ticks that read the
\* same temperature and meet no failure perform exactly one write: the first
\* tick writes the selected state and the second writes nothing.
C1_Idempotence ==
    [][(/\ TickStep
        /\ tick.desired.some /\ ~tick.attached /\ ~tick.pre_init
        /\ tick.pre_last = None /\ NoFailure(tick)
        /\ NoFailure(tick') /\ FEq(tick'.temp, tick.temp))
       => (/\ tick.outcome = "wrote"
           /\ fan_device.last_state = tick.desired
           /\ tick'.outcome = "unchanged"
           /\ fs_cur_state' = fs_cur_state
           /\ Writes(tick) + Writes(tick') = 1)]_vars

\* C1 witness: the second of two such ticks has run and wrote nothing.
C1_Witness == tick.repeat_first /\ tick.outcome = "unchanged"

\* C2: a tick that reads a valid temperature and finds the cached last state
\* equal to Some(selected state) writes nothing and leaves is_init, the fan
\* handle, its last_state and its table unchanged.
C2_HysteresisGuard ==
    [][(TickStep /\ tick'.desired.some /\ tick'.cached = tick'.desired)
       => (/\ ~WriteAttempted(tick')
           /\ fs_cur_state' = fs_cur_state
           /\ is_init' = is_init
           /\ fan_device' = fan_device
           /\ fan_device'.present)]_vars

\* C2 witness: the guard stopped a tick of a controller that holds a table.
C2_Witness ==
    /\ tick.outcome = "unchanged"
    /\ tick.cached = tick.desired
    /\ fan_device.present /\ Len(fan_device.temp_slots) > 0

\* C3: a tick whose write to cur_state succeeds ends with
\* last_state = Some(selected state), is_init = true and the fan handle present.
C3_WriteSuccess ==
    tick.outcome = "wrote"
       => (/\ fan_device.present
           /\ tick.desired.some
           /\ fan_device.last_state = tick.desired
           /\ is_init)

\* C3 witness: a tick of an already initialised controller wrote.
C3_Witness ==
    /\ tick.outcome = "wrote"
    /\ fan_device.last_state = tick.desired
    /\ tick.pre_init

C5_InitOnlyOnSuccess == is_init => tick.ever_wrote

C7_Recovery ==
    [][(TickStep /\ tick.outcome = "write_failed")
       => /\ ~fan_device.present
          /\ WriteAttempted(tick') => (GetFanDevice /\ tick'.attached)
          /\ ~GetFanDevice => (tick'.outcome = "no_fan" /\ fs_cur_state' = fs_cur_state)
          /\ fan_device'.present
               => (/\ tick'.attached
                   /\ fan_device'.temp_slots
                        = GetTemperatureSlots(config, fan_device'.max_state).slots)]_vars

\* C7 witness: the tick after a failed write rediscovered the fan and wrote.
C7_Witness ==
    /\ tick.prev_failed
    /\ tick.attached
    /\ tick.outcome = "wrote"
    /\ Len(fan_device.temp_slots) > 0

\* C8 as claimed: no tick ends the process because a device file is missing
\* or does not parse.
C8_NoAbortOnDeviceFailure ==
    ~(pc = "aborted" /\ tick.outcome = "panic"
      /\ abort_cause \in {"max_state", "temp_path"})

\* The panics of Config::check_config.
ConfigPanics == {"threshold", "state_order", "exceeds_device"}

C10_NoFanNoOp ==
    [][(TickStep /\ ~fan_device.present /\ ~GetFanDevice)
       => /\ tick'.outcome = "no_fan"
          /\ IsNaN(tick'.temp) /\ ~tick'.desired.some
          /\ UNCHANGED <<pc, is_init, fan_device, temp_device, fs_cur_state>>]_vars

\* C10 witness: such a tick has run and left the sensor handle absent although
\* a thermal zone is readable.
C10_Witness ==
    /\ tick.outcome = "no_fan"
    /\ ~fan_device.present
    /\ ~temp_device.some
    /\ GetTempPath(fs_zones).some
    /\ ~fs_fan

\* The tick got past the read of cur_state: it held or built a fan handle and
\* read a number from cur_state.
ReachedSensor(t) ==
    t.outcome \in {"no_sensor", "temp_failed", "unchanged", "wrote", "write_failed",
                   "no_change"}

\* C11: a tick that starts with a fan handle and no sensor handle, reads
\* cur_state and finds no thermal zone whose temp file parses, returns with
\* the fan handle and its last_state as they were, the sensor handle still
\* absent, is_init unchanged and cur_state not written.
C11_NoSensor ==
    [][(/\ TickStep
        /\ fan_device.present /\ ~temp_device.some
        /\ fs_fan /\ fs_cur_state.numeric
        /\ ~GetTempPath(fs_zones).some)
       => (/\ tick'.outcome = "no_sensor"
           /\ fan_device' = fan_device
           /\ ~temp_device'.some
           /\ is_init' = is_init
           /\ fs_cur_state' = fs_cur_state
           /\ pc' = "running")]_vars

\* C11 witness: such a tick has run on a handle that caches an applied state.
C11_Witness ==
    /\ tick.outcome = "no_sensor"
    /\ fan_device.present /\ fan_device.last_state.some
    /\ ~temp_device.some

\* C12: a tick that gets to the temperature read through a sensor handle
\* whose file does not parse ends with the sensor handle absent, the fan
\* handle and its last_state kept, is_init unchanged and cur_state not
\* written; the tick after it starts without a sensor handle and, when it
\* gets that far, runs sensor discovery: it ends with the handle discovery
\* returns, or as a failed discovery when no zone parses.
C12_TempReadFailure ==
    [][TickStep =>
        /\ (/\ ReachedSensor(tick')
            /\ temp_device.some /\ ~GetCurrentTemp(temp_device.v).ok)
              => (/\ tick'.outcome = "temp_failed"
                  /\ ~temp_device'.some
                  /\ fan_device'.present
                  /\ fan_device.present => fan_device' = fan_device
                  /\ is_init' = is_init
                  /\ fs_cur_state' = fs_cur_state)
        /\ tick'.outcome = "temp_failed"
              => (temp_device.some /\ ~GetCurrentTemp(temp_device.v).ok)
        /\ (tick.outcome = "temp_failed" /\ ReachedSensor(tick'))
              => (/\ ~temp_device.some
                  /\ temp_device' = GetTempPath(fs_zones)
                  /\ tick'.outcome = "no_sensor" <=> ~GetTempPath(fs_zones).some)]_vars

\* C12 witness: a temperature read failed on a controller whose fan handle
\* caches an applied state.
C12_Witness ==
    /\ tick.outcome = "temp_failed"
    /\ ~temp_device.some
    /\ fan_device.present /\ fan_device.last_state.some

Selected == tick.outcome = "selected"

\* C14: for every temperature strictly below threshold.min the selector
\* returns state.min, whatever the table holds.
C14_BelowRange ==
    (Selected /\ FLt(tick.temp, config.threshold.min))
        => tick.desired = Some(config.state.min)

\* C14 witness: the selector was applied below threshold.min with a table
\* holding a breakpoint that is not above that temperature.
C14_Witness ==
    /\ Selected
    /\ FLt(tick.temp, config.threshold.min)
    /\ \E i \in 1..Len(fan_device.temp_slots) :
          /\ FLe(fan_device.temp_slots[i].temp, tick.temp)
          /\ fan_device.temp_slots[i].state # config.state.min
    /\ tick.desired = Some(config.state.min)

\* C15: for every temperature strictly above threshold.max the selector
\* returns state.max if it is configured and the device max_state otherwise,
\* whatever the table holds.
C15_AboveRange ==
    (Selected /\ FLt(config.threshold.max, tick.temp))
        => tick.desired = Some(IF config.state.max.some THEN config.state.max.v
                               ELSE fan_device.max_state)

\* C15 witness: the selector was applied above threshold.max with a table
\* that is empty or whose last state is not the ceiling, state.max not being
\* configured.
C15_Witness ==
    /\ Selected
    /\ FLt(config.threshold.max, tick.temp)
    /\ pc = "table"
    /\ \/ fan_device.temp_slots = <<>>
       \/ fan_device.temp_slots[Len(fan_device.temp_slots)].state # Ceiling(config, fan_device)
    /\ ~config.state.max.some
    /\ tick.desired = Some(fan_device.max_state)

\* The entries of the handle's table whose breakpoint is <= t.
AtOrBelow(t) ==
    {i \in 1..Len(fan_device.temp_slots) : FLe(fan_device.temp_slots[i].temp, t)}

\* C16: for every temperature with threshold.min <= t <= threshold.max the
\* selector returns the state of the entry with the greatest breakpoint that
\* is <= t, and state.min when no entry has a breakpoint <= t (the empty
\* table included) -- stated for the tables new_fan_device builds.
C16_InRange ==
    (Selected /\ pc = "built"
       /\ FLe(config.threshold.min, tick.temp) /\ FLe(tick.temp, config.threshold.max))
        => tick.desired =
             Some(IF AtOrBelow(tick.temp) = {} THEN config.state.min
                  ELSE fan_device.temp_slots[
                         CHOOSE i \in AtOrBelow(tick.temp) :
                            \A j \in AtOrBelow(tick.temp) :
                               FLe(fan_device.temp_slots[j].temp,
                                   fan_device.temp_slots[i].temp)].state)

\* C17: when the temperature equals a breakpoint of the built table, the
\* selector returns that breakpoint's state; at t = threshold.min this is
\* the state of slot 0, state.min + 1.
C17_Tie ==
    (Selected /\ pc = "built")
        => \A i \in 1..Len(fan_device.temp_slots) :
              FEq(fan_device.temp_slots[i].temp, tick.temp)
                 => tick.desired = Some(fan_device.temp_slots[i].state)

\* The configuration is valid for the device of the handle: check_config
\* accepted it (the handle was built) and state.min does not exceed the
\* effective max state.
ValidForDevice == pc = "built" /\ config.state.min <= Ceiling(config, fan_device)

\* C18: for a valid configuration and the table built from it, the selected
\* state is non-decreasing in the temperature: of two selections made one
\* after the other with t1 <= t2, the second state is not below the first.
C18_Monotonic ==
    [][(ValidForDevice /\ Selected /\ tick'.outcome = "selected"
          /\ FLe(tick.temp, tick'.temp))
         => tick.desired.v <= tick'.desired.v]_vars

\* C18 witness: on a built table of three entries the selector returned a
\* state strictly between state.min and the ceiling for a temperature
\* strictly between the thresholds.
C18_Witness ==
    /\ ValidForDevice /\ Selected
    /\ Len(fan_device.temp_slots) = 3
    /\ FLt(config.threshold.min, tick.temp) /\ FLt(tick.temp, config.threshold.max)
    /\ config.state.min < tick.desired.v
    /\ tick.desired.v < Ceiling(config, fan_device)

\* C19: for a valid configuration with num_slots > 1 the first breakpoint
\* of the built table is exactly threshold.min and the last is exactly
\* threshold.max.
C19_ExactRange ==
    (ValidForDevice /\ Len(fan_device.temp_slots) > 1)
        => /\ FEq(fan_device.temp_slots[1].temp, config.threshold.min)
           /\ FEq(fan_device.temp_slots[Len(fan_device.temp_slots)].temp,
                  config.threshold.max)

\* C20: with M the effective max state and n = M - state.min >= 2, the built
\* table has n entries, entry i (0-based) is
\* (state.min + 1 + i, threshold.min + i * step) with
\* step = (threshold.max - threshold.min) / (n - 1) in f64 arithmetic, so the
\* states are state.min+1 .. M and the last state is the ceiling.
C20_TableShape ==
    (pc = "built" /\ Ceiling(config, fan_device) - config.state.min >= 2)
        => /\ Len(fan_device.temp_slots) = Ceiling(config, fan_device) - config.state.min
           /\ \A i \in 0..(Len(fan_device.temp_slots) - 1) :
                 /\ fan_device.temp_slots[i + 1].state = config.state.min + 1 + i
                 /\ fan_device.temp_slots[i + 1].temp =
                      FAdd(config.threshold.min,
                           FMulInt(i, FDivInt(FSub(config.threshold.max, config.threshold.min),
                                              Ceiling(config, fan_device) - config.state.min - 1)))
           /\ {fan_device.temp_slots[k].state : k \in 1..Len(fan_device.temp_slots)}
                 = (config.state.min + 1)..Ceiling(config, fan_device)
           /\ fan_device.temp_slots[Len(fan_device.temp_slots)].state
                 = Ceiling(config, fan_device)

\* C20 witness: a table of three entries was built whose middle breakpoint
\* lies strictly between the thresholds and whose last state is the ceiling.
C20_Witness ==
    /\ pc = "built"
    /\ Ceiling(config, fan_device) - config.state.min = 3
    /\ Len(fan_device.temp_slots) = 3
    /\ FLt(config.threshold.min, fan_device.temp_slots[2].temp)
    /\ FLt(fan_device.temp_slots[2].temp, config.threshold.max)
    /\ fan_device.temp_slots[3].state = Ceiling(config, fan_device)

(* ------------------------------------------------------------------ *)
(* Degenerate tables                                                   *)
(* ------------------------------------------------------------------ *)

\* num_slots of calculate_slots for the max_state that new_fan_device read:
\* effective max state - state.min, as an integer (before any u32 wrap).
NumSlots ==
    UnwrapOr(config.state.max, tick.max_state_file.v) - config.state.min

\* new_fan_device was applied to a device whose max_state file parsed, as a
\* function (it either built the handle or ended the process).
Attached == pc \in {"built", "aborted"} /\ tick.max_state_file.numeric

\* C21: when num_slots is 1 the table built is the single entry
\* (state.min + 1, threshold.min), its breakpoint a number.
C21_SingleSlot ==
    (Attached /\ pc = "built" /\ NumSlots = 1)
        => /\ Len(fan_device.temp_slots) = 1
           /\ fan_device.temp_slots[1].state = config.state.min + 1
           /\ ~IsNaN(fan_device.temp_slots[1].temp)
           /\ FEq(fan_device.temp_slots[1].temp, config.threshold.min)

\* C22: when num_slots is 0 (thresholds in order), attaching the fan succeeds
\* with an empty table (the process does not abort), and the selector then
\* returns state.min for every temperature <= threshold.max and the ceiling
\* above threshold.max.
C22_NoSlots ==
    (Attached /\ NumSlots = 0 /\ FLt(config.threshold.min, config.threshold.max))
        => /\ pc = "built"
           /\ fan_device.temp_slots = <<>>
           /\ Selected =>
                 tick.desired = Some(IF FLe(tick.temp, config.threshold.max)
                                     THEN config.state.min
                                     ELSE Ceiling(config, fan_device))

(* ------------------------------------------------------------------ *)
(* The example configuration                                           *)
(* ------------------------------------------------------------------ *)

\* A table entry (state, n/d degrees).
Slot(state, n, d) == [state |-> state, temp |-> F(n, d)]

\* C23 as stated: for thresholds 45.0 and 70.0 and states 0 to 5 the table
\* built is [(1,45.0),(2,50.0),(3,55.0),(4,60.0),(5,65.0)].
C23_Original ==
    (pc = "built" /\ config = ExampleConfig)
        => fan_device.temp_slots =
             <<Slot(1, 45, 1), Slot(2, 50, 1), Slot(3, 55, 1), Slot(4, 60, 1),
               Slot(5, 65, 1)>>

\* C23 amended: for thresholds 45.0 and 70.0 and states 0 to 5 the table
\* built is [(1,45.0),(2,51.25),(3,57.5),(4,63.75),(5,70.0)]: the step is
\* (70 - 45) / 4 = 6.25 and the last breakpoint is threshold.max.
C23_ExampleTable ==
    (pc = "built" /\ config = ExampleConfig)
        => fan_device.temp_slots =
             <<Slot(1, 45, 1), Slot(2, 5125, 100), Slot(3, 575, 10),
               Slot(4, 6375, 100), Slot(5, 70, 1)>>

\* C23 witness: the table of the example configuration was built, with five
\* entries.
C23_Witness ==
    pc = "built" /\ config = ExampleConfig /\ Len(fan_device.temp_slots) = 5

\* The selector was applied to n degrees with the table built for the
\* example configuration.
ExampleSelected(n) ==
    pc = "built" /\ config = ExampleConfig /\ Selected /\ FEq(tick.temp, F(n, 1))

\* C24 as stated: with the example configuration and its table the selector
\* returns 1 at 52.0, 0 at 44.0, 5 at 71.0 and 5 at 70.0.
C24_Original ==
    /\ ExampleSelected(52) => tick.desired = Some(1)
    /\ ExampleSelected(44) => tick.desired = Some(0)
    /\ ExampleSelected(71) => tick.desired = Some(5)
    /\ ExampleSelected(70) => tick.desired = Some(5)

\* C24 amended: with the example configuration and its table the selector
\* returns 2 at 52.0 (the entry (2, 51.25) is the last one at or below 52.0),
\* 0 at 44.0, 5 at 71.0 and 5 at 70.0.
C24_ExampleSelections ==
    /\ ExampleSelected(52) => tick.desired = Some(2)
    /\ ExampleSelected(44) => tick.desired = Some(0)
    /\ ExampleSelected(71) => tick.desired = Some(5)
    /\ ExampleSelected(70) => tick.desired = Some(5)

\* C24 witness: the selector was applied to 52.0 with the table of the
\* example configuration and returned 2.
C24_Witness == ExampleSelected(52) /\ tick.desired = Some(2)

(* ------------------------------------------------------------------ *)
(* check_config                                                        *)
(* ------------------------------------------------------------------ *)

\* check_config was applied to config and fan_device as a function; pc tells
\* whether it returned ("checked") or panicked ("aborted").
Checked == tick.outcome = "check_config"

\* The thresholds are in order.
ValidThresholds == FLt(config.threshold.min, config.threshold.max)

\* C25: check_config aborts whenever threshold.min >= threshold.max,
\* whatever the state settings and whether or not a fan is present, and it
\* does so before any state check: the panic is the threshold one.
C25_ThresholdOrder ==
    (Checked /\ FLe(config.threshold.max, config.threshold.min))
        => pc = "aborted" /\ abort_cause = "threshold"

\* C25 witness: check_config was applied without a fan to thresholds in the
\* wrong order together with state.min >= state.max, and raised the
\* threshold panic.
C25_Witness ==
    /\ Checked /\ ~fan_device.present
    /\ FLe(config.threshold.max, config.threshold.min)
    /\ config.state.max.some /\ config.state.min >= config.state.max.v
    /\ pc = "aborted" /\ abort_cause = "threshold"

\* C26: with thresholds in order, check_config aborts whenever state.max is
\* configured and state.min >= state.max, with or without a fan and also when
\* state.max is within the device max_state.
C26_StateOrder ==
    (Checked /\ ValidThresholds
       /\ config.state.max.some /\ config.state.min >= config.state.max.v)
        => pc = "aborted" /\ abort_cause = "state_order"

\* C26 witness: check_config panicked for state.min = state.max with a fan
\* whose max_state is not below state.max.
C26_Witness ==
    /\ Checked /\ ValidThresholds
    /\ config.state.max = Some(config.state.min)
    /\ fan_device.present /\ config.state.max.v <= fan_device.max_state
    /\ pc = "aborted" /\ abort_cause = "state_order"

\* C27: with thresholds in order and a configured state.max > state.min,
\* check_config aborts exactly when a fan is present and state.max exceeds
\* its max_state; without a fan, or with state.max <= max_state, it returns.
C27_DeviceBound ==
    (Checked /\ ValidThresholds
       /\ config.state.max.some /\ config.state.min < config.state.max.v)
        => /\ pc = "aborted"
                <=> (fan_device.present /\ config.state.max.v > fan_device.max_state)
           /\ pc = "aborted" => abort_cause = "exceeds_device"
           /\ pc # "aborted" => pc = "checked" /\ abort_cause = "none"

\* C27 witness: check_config returned normally without a fan for a
\* configured state.max above state.min.
C27_Witness ==
    /\ Checked /\ ValidThresholds
    /\ config.state.max.some /\ config.state.min < config.state.max.v
    /\ ~fan_device.present
    /\ pc = "checked"

\* C28: attaching a fan whose max_state is below state.min (a thermal zone
\* being readable) ends the process with a configuration panic, also when
\* state.max is not configured, and no fan handle is ever present with
\* state.min > its max_state.
C28_MinWithinDevice ==
    /\ (tick.max_state_file.numeric /\ config.state.min > tick.max_state_file.v
          /\ abort_cause # "temp_path")
          => pc = "aborted" /\ abort_cause \in ConfigPanics
    /\ fan_device.present => config.state.min <= fan_device.max_state

(* ------------------------------------------------------------------ *)
(* The temperature of a tick                                           *)
(* ------------------------------------------------------------------ *)

\* The zones whose temp file parses as a number.
ParsableZones(zones) == {z \in Zones : zones[z].numeric}

\* The greatest reading among the parsable zones.
HottestReading(zones) ==
    CHOOSE n \in {zones[z].v : z \in ParsableZones(zones)} :
       \A z \in ParsableZones(zones) : zones[z].v <= n

\* C29: the temperature a tick uses is the maximum over all thermal zones
\* whose temp file parses at that tick, not the reading of the zone that was
\* discovered first.
C29_HottestZone ==
    [][(TickStep /\ ~IsNaN(tick'.temp))
         => FEq(tick'.temp, Celsius[HottestReading(fs_zones)])]_vars

\* Temp::get_current_temp was applied through the sensor handle, as a function.
SensorRead == pc = "sensor_read"

\* C30: get_current_temp returns the number in the sensor file divided by
\* 1000, zero and negative numbers included (the model's readings are whole
\* degrees), and an error with no temperature when the file is missing,
\* empty or not a number.
C30_SensorRead ==
    SensorRead
        => IF fs_zones[temp_device.v].numeric
           THEN /\ tick.outcome = "temp_read"
                /\ fs_zones[temp_device.v].v % MilliPerDegree = 0
                /\ FEq(tick.temp, FromInt(fs_zones[temp_device.v].v \div MilliPerDegree))
           ELSE tick.outcome = "temp_error" /\ IsNaN(tick.temp)

\* C30 witness: a negative reading was returned as a negative temperature.
C30_Witness ==
    /\ SensorRead
    /\ fs_zones[temp_device.v] = Num(-5000)
    /\ tick.outcome = "temp_read"
    /\ tick.temp = FNeg(FromInt(5))

\* The state the selector gives for the reading of the sensor the controller
\* holds, with the table of the fan handle it holds.
SelectedNow == ChooseSpeed(GetCurrentTemp(temp_device.v).temp, fan_device, config)

\* C31: whether a tick writes depends only on the cached last state and the
\* selected state: a tick of a controller that holds a fan handle and a sensor
\* whose file parses attempts the write exactly when the cached last state
\* differs from the selected state, whatever cur_state holds and whether or
\* not it can be read and parsed.
C31_DecisionIgnoresCurState ==
    [][(/\ TickStep
        /\ fan_device.present
        /\ temp_device.some /\ fs_zones[temp_device.v].numeric)
       => (WriteAttempted(tick') <=> fan_device.last_state # Some(SelectedNow))]_vars

\* C32: while the cached last state equals the selected state a tick that
\* meets no failure writes nothing, whatever cur_state holds; a tick that
\* meets no failure and selects a state other than the cached one ends with
\* cur_state holding the selected state.
C32_DriftUntilStateChange ==
    [][(TickStep /\ NoFailure(tick') /\ tick'.cached.some)
       => IF tick'.cached = tick'.desired
          THEN tick'.outcome = "unchanged" /\ fs_cur_state' = fs_cur_state
          ELSE fs_cur_state' = Num(tick'.desired.v)]_vars

\* C32 witness: the guard stopped a tick while cur_state held a number other
\* than the cached and selected state.
C32_Witness ==
    /\ tick.outcome = "unchanged"
    /\ tick.cached = tick.desired
    /\ fs_cur_state.numeric /\ fs_cur_state # Num(tick.desired.v)

\* C33: a tick that starts and ends with a fan handle leaves the handle's
\* table and max_state unchanged, and only a step that attaches a fan (at
\* startup, or a tick that found no handle) produces a handle.
C33_TableFrozen ==
    [][/\ (fan_device.present /\ fan_device'.present)
          => /\ fan_device'.temp_slots = fan_device.temp_slots
             /\ fan_device'.max_state = fan_device.max_state
       /\ (~fan_device.present /\ fan_device'.present)
          => (pc = "start" \/ tick'.attached)]_vars

\* C33 witness: a tick of a controller that already held a handle with a
\* table wrote a value other than the handle's max_state, and the handle kept
\* its table.
C33_Witness ==
    /\ tick.outcome = "wrote" /\ ~tick.attached
    /\ fan_device.present /\ Len(fan_device.temp_slots) > 1
    /\ fs_cur_state # Num(fan_device.max_state)

\* C34: is_init never changes from true to false.
C34_InitMonotone == [][is_init => is_init']_vars

\* C34 witness: is_init is true after a tick that lost the fan handle.
C34_Witness ==
    /\ is_init
    /\ tick.outcome \in {"cur_unreadable", "write_failed"}
    /\ ~fan_device.present

\* Sensor discovery returned: Temp::new or Fan::get_temp_path.
Discovered == pc \in {"temp_new", "fan_temp_path"}

\* A temperature was read through the handle discovery produced.
DiscoveredRead == pc \in {"temp_new_read", "fan_temp_path_read"}

\* C35: sensor discovery returns the path of a thermal zone's temp file whose
\* content parses as a number, or an error when no zone's file parses, and a
\* temperature read through the resulting handle reads that file.
C35_DiscoveryReturnsPath ==
    /\ Discovered
         => IF ParsableZones(fs_zones) = {}
            THEN temp_device = None
            ELSE temp_device.some /\ temp_device.v \in ParsableZones(fs_zones)
    /\ DiscoveredRead
         => /\ temp_device.v \in ParsableZones(fs_zones)
            /\ tick.outcome = "temp_read"
            /\ FEq(tick.temp, Celsius[fs_zones[temp_device.v].v])

\* C36: every value a tick writes to cur_state lies between state.min and the
\* effective maximum (state.max if configured, else the device's max_state)
\* and does not exceed the max_state of the device the handle was built for.
C36_WritesWithinRange ==
    tick.outcome = "wrote"
        => /\ config.state.min <= tick.desired.v
           /\ tick.desired.v <= Ceiling(config, fan_device)
           /\ tick.desired.v <= fan_device.max_state

\* C37: where nothing but the controller changes cur_state, a tick that
\* reaches the write decision with no read, parse or write failure ends with
\* cur_state holding the state selected in that tick, whether it wrote, was
\* stopped by the comparison with last_state, or found the selected state in
\* cur_state already.
C37_TickLeavesSelected ==
    [][(TickStep /\ NoFailure(tick')) => fs_cur_state' = Num(tick'.desired.v)]_vars

\* C37 witness: after an earlier write and a re-attachment of the fan, a tick
\* found the selected state in cur_state and skipped the write.
C37_Witness ==
    /\ tick.outcome = "no_change"
    /\ tick.ever_wrote /\ tick.cached = None
    /\ fs_cur_state = Num(tick.desired.v)

\* The process runs, the fan device is in the thermal directory with a
\* cur_state that parses, and the sensor the controller holds, or else some
\* thermal zone, has a temp file that parses.
Healthy ==
    /\ pc = "running"
    /\ fs_fan /\ fs_cur_state.numeric
    /\ IF temp_device.some THEN fs_zones[temp_device.v].numeric
       ELSE ParsableZones(fs_zones) # {}

\* A step in which the only thing that happens is a tick that meets no
\* failure: no file changes except by the controller's write.
QuietStep == TickStep /\ NoFailure(tick')

\* cur_state holds the state selected for the sensor's reading and the next
\* tick writes nothing.
Settled ==
    /\ fan_device.present /\ temp_device.some
    /\ fs_zones[temp_device.v].numeric
    /\ fs_cur_state = Num(SelectedNow)
    /\ (fan_device.last_state = Some(SelectedNow) \/ is_init)

\* The cached last state, if there is one, is the number cur_state holds:
\* nothing has changed cur_state since the controller's last write.
Synced ==
    fan_device.last_state.some => fs_cur_state = Num(fan_device.last_state.v)

====
